---- MODULE Spec2Model ----
(***************************************************************************)
(* A model of whisper-gui.py: the command-line entry point, the button     *)
(* callback select_file_and_transcribe, the adapter transcribe_audio and   *)
(* the derivation of the output path.                                      *)
(*                                                                         *)
(* A Python str is a sequence of one-character strings.  A time is a       *)
(* number of eighths of a second: such a float is exact in binary, so     *)
(* the result of the ".2f" format is determined (round half to even).    *)
(***************************************************************************)
EXTENDS Integers, Sequences, FiniteSets, TLC

VARIABLES
    pc,           \* position of the process: main, the event loop, the handler
    argv,         \* sys.argv[1:]
    stdout,       \* what has been printed
    exit_status,  \* the status sys.exit was called with, -1 while running
    window,       \* whether tk.Tk() has been created
    audio_path,   \* select_file_and_transcribe: audio_path
    transcript,   \* select_file_and_transcribe: transcript
    output_path,  \* select_file_and_transcribe: output_path
    exc,          \* the exception in flight or handled last
    fs,           \* the file system: path -> [exists, data]
    fs0,          \* the file system when the button was clicked
    notices,      \* the message boxes shown since the click
    events,       \* what the handler has done since the click
    result,       \* transcribe_audio: result of model.transcribe
    timestamps    \* transcribe_audio: the timestamp flag in force

vars == <<pc, argv, stdout, exit_status, window, audio_path, transcript,
          output_path, exc, fs, fs0, notices, events, result, timestamps>>

(***************************************************************************)
(* Bounds                                                                  *)
(***************************************************************************)
MaxArgs == 2
MaxSegs == 2
MaxPathLen == 5

(***************************************************************************)
(* Configuration                                                           *)
(***************************************************************************)
ENABLE_TIMESTAMPS == TRUE

(***************************************************************************)
(* Strings                                                                 *)
(***************************************************************************)
RECURSIVE SeqsUpTo(_, _)
SeqsUpTo(S, n) ==
    IF n = 0 THEN {<<>>}
    ELSE LET shorter == SeqsUpTo(S, n - 1)
         IN  shorter \cup {Append(s, c) : s \in {t \in shorter : Len(t) = n - 1}, c \in S}

\* str.rfind(c), one-based: the last index of c in s, 0 when there is none
RFind(s, c) ==
    LET hits == {i \in 1..Len(s) : s[i] = c}
    IN  IF hits = {} THEN 0 ELSE CHOOSE i \in hits : \A j \in hits : j <= i

IsSpace(c) == c \in {" ", "\n", "\t"}

RECURSIVE LStrip(_)
LStrip(s) == IF s # <<>> /\ IsSpace(Head(s)) THEN LStrip(Tail(s)) ELSE s

RECURSIVE RStrip(_)
RStrip(s) ==
    IF s # <<>> /\ IsSpace(s[Len(s)]) THEN RStrip(SubSeq(s, 1, Len(s) - 1)) ELSE s

\* str.strip()
Strip(s) == RStrip(LStrip(s))

\* sep.join(parts)
RECURSIVE Join(_, _)
Join(parts, sep) ==
    IF parts = <<>> THEN <<>>
    ELSE IF Len(parts) = 1 THEN parts[1]
    ELSE parts[1] \o sep \o Join(Tail(parts), sep)

Digit(d) == <<"0", "1", "2", "3", "4", "5", "6", "7", "8", "9">>[d + 1]

RECURSIVE IntStr(_)
IntStr(n) == IF n < 10 THEN <<Digit(n)>> ELSE IntStr(n \div 10) \o <<Digit(n % 10)>>

\* the hundredths that ".2f" prints for t eighths of a second: 12.5 * t,
\* a tie rounded to the even neighbour
Hundredths(t) ==
    LET n == t * 25
        q == n \div 2
    IN  IF n % 2 = 0 THEN q ELSE IF q % 2 = 0 THEN q ELSE q + 1

\* f"{t:.2f}"
Fmt2(t) ==
    LET h == Hundredths(t)
    IN  IntStr(h \div 100) \o <<".", Digit((h % 100) \div 10), Digit(h % 10)>>

(***************************************************************************)
(* os.path.splitext and the output path                                    *)
(***************************************************************************)
\* the loop of splitext over the leading dots of the file name: TRUE when a
\* character other than "." stands in p[i .. dot-1]
RECURSIVE NonDotBefore(_, _, _)
NonDotBefore(p, i, dot) ==
    IF i >= dot THEN FALSE
    ELSE IF p[i] # "." THEN TRUE
    ELSE NonDotBefore(p, i + 1, dot)

\* os.path.splitext(p): <<root, ext>>
splitext(p) ==
    LET sepIndex == RFind(p, "/")
        dotIndex == RFind(p, ".")
    IN  IF dotIndex > sepIndex /\ NonDotBefore(p, sepIndex + 1, dotIndex)
        THEN <<SubSeq(p, 1, dotIndex - 1), SubSeq(p, dotIndex, Len(p))>>
        ELSE <<p, <<>> >>

TxtExt == <<".", "t", "x", "t">>

\* a variant that cuts at the last dot of the whole path
OutputPath_LastDot(p) ==
    LET dotIndex == RFind(p, ".")
    IN  (IF dotIndex > 0 THEN SubSeq(p, 1, dotIndex - 1) ELSE p) \o TxtExt

\* base, _ = os.path.splitext(audio_path); output_path = base + ".txt"
OutputPath(p) == splitext(p)[1] \o TxtExt

(***************************************************************************)
(* transcribe_audio: the formatting of the model's result                  *)
(***************************************************************************)
\* f"[{start_time:.2f} - {end_time:.2f}] {text_segment}"
SegmentStr(seg) ==
    <<"[">> \o Fmt2(seg.start) \o <<" ", "-", " ">> \o Fmt2(seg.end)
        \o <<"]", " ">> \o Strip(seg.text)

\* a variant that reads the segments without asking whether they are there
transcribe_audio_IgnoresMissing(res, flag) ==
    IF flag
    THEN Join([i \in 1..Len(res.segments) |-> SegmentStr(res.segments[i])], <<"\n">>)
    ELSE res.text

\* the value transcribe_audio returns for a result of model.transcribe
transcribe_audio(res, flag) ==
    IF flag /\ res.hasSegments
    THEN Join([i \in 1..Len(res.segments) |-> SegmentStr(res.segments[i])], <<"\n">>)
    ELSE res.text

(***************************************************************************)
(* Values                                                                  *)
(***************************************************************************)
NoExc == [cls |-> "None", msg |-> ""]

NoResult == [text |-> <<>>, hasSegments |-> FALSE, segments |-> <<>>]

Absent == [exists |-> FALSE, data |-> <<>>]

File(d) == [exists |-> TRUE, data |-> d]

\* the files the user picks in the dialog ("All Files" lets any name through)
DialogPaths ==
    { <<"a", ".", "m", "p", "3">>,
      <<"a", ".", "t", "x", "t">>,
      <<"d", ".", "d", "/", "a">>,
      <<".", "a">> }

FsPaths == DialogPaths \cup {OutputPath(p) : p \in DialogPaths}

AudioData == <<"R", "I", "F", "F">>

OldData == <<"o", "l", "d">>

\* what model.transcribe returns in the handler's runs
SampleResults ==
    { [text |-> <<" ", "h", "i">>, hasSegments |-> FALSE, segments |-> <<>>],
      [text |-> <<" ", "h", "i">>, hasSegments |-> TRUE,
       segments |-> << [start |-> 0, end |-> 11, text |-> <<" ", "h", "i">>] >>] }

\* the exceptions the handler's steps raise
TclError == [cls |-> "TclError", msg |-> "application has been destroyed"]

LoadError == [cls |-> "RuntimeError", msg |-> "Model turbo not found"]

DecodeError == [cls |-> "RuntimeError", msg |-> "Failed to load audio"]

OpenError == [cls |-> "PermissionError", msg |-> "[Errno 13] Permission denied"]

WriteError == [cls |-> "OSError", msg |-> "[Errno 28] No space left on device"]

\* a variant that catches the errors of the operating system only
IsException_OSErrorOnly(cls) == cls \in {"OSError", "PermissionError"}

\* issubclass(cls, Exception): what "except Exception" catches
IsException(cls) ==
    cls \in {"Exception", "RuntimeError", "OSError", "PermissionError", "TclError"}

HelpText == "Usage: whisper_gui.py [--help]"

ScriptName == "whisper-gui.py"

ArgTokens == {"--help", "-h"}

\* a variant that looks at the first argument only
HelpRequested_FirstArgOnly(args) == Len(args) >= 1 /\ args[1] = "--help"

\* "--help" in sys.argv
HelpRequested(args) ==
    LET sys_argv == <<ScriptName>> \o args
    IN  \E i \in 1..Len(sys_argv) : sys_argv[i] = "--help"

\* the message boxes
WorkingNotice ==
    [kind |-> "info", title |-> "Transcribing",
     text |-> <<"Please wait while the file is transcribed...">>]

SuccessNotice(path) ==
    [kind |-> "info", title |-> "Success",
     text |-> <<"Transcription saved to:", "\n">> \o path]

ErrorNotice(e) == [kind |-> "error", title |-> "Error", text |-> <<e.msg>>]

\* what a write that fails leaves in the file opened with mode "w": nothing,
\* or the part of the text that reached the disk
PartialWrites(t) == {<<>>, SubSeq(t, 1, Len(t) \div 2)}

(***************************************************************************)
(* main and the event loop                                                 *)
(***************************************************************************)
Init ==
    /\ pc = "start"
    /\ argv \in SeqsUpTo(ArgTokens, MaxArgs)
    /\ stdout = <<>>
    /\ exit_status = -1
    /\ window = FALSE
    /\ audio_path = <<>>
    /\ transcript = <<>>
    /\ output_path = <<>>
    /\ exc = NoExc
    /\ \E old \in BOOLEAN :
         fs = [p \in FsPaths |->
                 IF p \in DialogPaths THEN File(AudioData)
                 ELSE IF old THEN File(OldData) ELSE Absent]
    /\ fs0 = fs
    /\ notices = <<>>
    /\ events = <<>>
    /\ result = NoResult
    /\ timestamps = ENABLE_TIMESTAMPS

handlerVars == <<audio_path, transcript, output_path, exc, fs, fs0, notices, events>>

mainVars == <<argv, stdout, exit_status, window>>

adapterVars == <<result, timestamps>>

otherVars == <<argv, stdout, exit_status, window, result, timestamps>>

main ==
    /\ pc = "start"
    /\ IF HelpRequested(argv)
       THEN /\ stdout' = Append(stdout, HelpText)
            /\ exit_status' = 0
            /\ pc' = "exited"
            /\ UNCHANGED window
       ELSE /\ window' = TRUE
            /\ pc' = "idle"
            /\ UNCHANGED <<stdout, exit_status>>
    /\ UNCHANGED argv
    /\ UNCHANGED handlerVars
    /\ UNCHANGED adapterVars

\* the button is pressed: mainloop calls select_file_and_transcribe
Click ==
    /\ pc = "idle"
    /\ pc' = "selecting"
    /\ audio_path' = <<>>
    /\ transcript' = <<>>
    /\ output_path' = <<>>
    /\ exc' = NoExc
    /\ fs0' = fs
    /\ notices' = <<>>
    /\ events' = <<>>
    /\ UNCHANGED <<argv, stdout, exit_status, window, fs>>
    /\ UNCHANGED adapterVars

(***************************************************************************)
(* select_file_and_transcribe                                              *)
(***************************************************************************)
Raise(e) ==
    /\ exc' = e
    /\ pc' = "except"
    /\ events' = Append(events, "raised")

\* a variant without the test for an empty result
DialogReturn_NoCancelCheck ==
    /\ pc = "selecting"
    /\ \E p \in DialogPaths \cup {<<>>} : audio_path' = p
    /\ pc' = "try"
    /\ events' = Append(events, "dialog_returned")
    /\ UNCHANGED <<transcript, output_path, exc, fs, fs0, notices>>
    /\ UNCHANGED otherVars

\* askopenfilename returns; an empty result ends the handler
DialogReturn ==
    /\ pc = "selecting"
    /\ \E p \in DialogPaths \cup {<<>>} :
         /\ audio_path' = p
         /\ pc' = IF p = <<>> THEN "idle" ELSE "try"
    /\ events' = Append(events, "dialog_returned")
    /\ UNCHANGED <<transcript, output_path, exc, fs, fs0, notices>>
    /\ UNCHANGED mainVars
    /\ UNCHANGED adapterVars

\* messagebox.showinfo("Transcribing", ...) puts up the box, or raises
ShowWorking ==
    /\ pc = "try"
    /\ \/ /\ notices' = Append(notices, WorkingNotice)
          /\ events' = Append(events, "working_shown")
          /\ pc' = "working"
          /\ UNCHANGED exc
       \/ /\ Raise(TclError)
          /\ UNCHANGED notices
    /\ UNCHANGED <<audio_path, transcript, output_path, fs, fs0>>
    /\ UNCHANGED mainVars
    /\ UNCHANGED adapterVars

\* the user closes the box and showinfo returns
DismissWorking ==
    /\ pc = "working"
    /\ events' = Append(events, "working_dismissed")
    /\ pc' = "load_model"
    /\ UNCHANGED <<audio_path, transcript, output_path, exc, fs, fs0, notices>>
    /\ UNCHANGED mainVars
    /\ UNCHANGED adapterVars

\* transcribe_audio is entered: whisper.load_model(MODEL_NAME)
LoadModel ==
    /\ pc = "load_model"
    /\ \/ /\ events' = Append(events, "adapter_called")
          /\ pc' = "inference"
          /\ UNCHANGED exc
       \/ /\ exc' = LoadError
          /\ pc' = "except"
          /\ events' = events \o <<"adapter_called", "raised">>
    /\ UNCHANGED <<audio_path, transcript, output_path, fs, fs0, notices>>
    /\ UNCHANGED mainVars
    /\ UNCHANGED adapterVars

\* model.transcribe and the formatting; then the output path is derived
Inference ==
    /\ pc = "inference"
    /\ \/ /\ \E r \in SampleResults :
               transcript' = transcribe_audio(r, ENABLE_TIMESTAMPS)
          /\ output_path' = OutputPath(audio_path)
          /\ events' = Append(events, "adapter_returned")
          /\ pc' = "open"
          /\ UNCHANGED exc
       \/ /\ Raise(DecodeError)
          /\ UNCHANGED <<transcript, output_path>>
    /\ UNCHANGED <<audio_path, fs, fs0, notices>>
    /\ UNCHANGED mainVars
    /\ UNCHANGED adapterVars

\* open(output_path, "w", encoding="utf-8") creates or truncates the file
OpenOutput ==
    /\ pc = "open"
    /\ \/ /\ fs' = [fs EXCEPT ![output_path] = File(<<>>)]
          /\ events' = Append(events, "opened")
          /\ pc' = "write"
          /\ UNCHANGED exc
       \/ /\ Raise(OpenError)
          /\ UNCHANGED fs
    /\ UNCHANGED <<audio_path, transcript, output_path, fs0, notices>>
    /\ UNCHANGED mainVars
    /\ UNCHANGED adapterVars

\* a variant whose successful write leaves the last character out
WriteOutput_Truncated ==
    /\ pc = "write"
    /\ \/ /\ fs' = [fs EXCEPT ![output_path] =
                       File(SubSeq(transcript, 1, Len(transcript) - 1))]
          /\ events' = Append(events, "written")
          /\ pc' = "call_success"
          /\ UNCHANGED exc
       \/ /\ \E d \in PartialWrites(transcript) :
               fs' = [fs EXCEPT ![output_path] = File(d)]
          /\ exc' = WriteError
          /\ pc' = "except"
          /\ events' = Append(events, "raised")
    /\ UNCHANGED <<audio_path, transcript, output_path, fs0, notices>>
    /\ UNCHANGED otherVars

\* f.write(transcript) and the close at the end of the with block
WriteOutput ==
    /\ pc = "write"
    /\ \/ /\ fs' = [fs EXCEPT ![output_path] = File(transcript)]
          /\ events' = Append(events, "written")
          /\ pc' = "call_success"
          /\ UNCHANGED exc
       \/ /\ \E d \in PartialWrites(transcript) :
               fs' = [fs EXCEPT ![output_path] = File(d)]
          /\ Raise(WriteError)
    /\ UNCHANGED <<audio_path, transcript, output_path, fs0, notices>>
    /\ UNCHANGED mainVars
    /\ UNCHANGED adapterVars

\* messagebox.showinfo("Success", ...) puts up the box, or raises
ShowSuccess ==
    /\ pc = "call_success"
    /\ \/ /\ notices' = Append(notices, SuccessNotice(output_path))
          /\ events' = Append(events, "success_shown")
          /\ pc' = "success"
          /\ UNCHANGED exc
       \/ /\ Raise(TclError)
          /\ UNCHANGED notices
    /\ UNCHANGED <<audio_path, transcript, output_path, fs, fs0>>
    /\ UNCHANGED mainVars
    /\ UNCHANGED adapterVars

\* the user closes the box; the handler returns to the event loop
DismissSuccess ==
    /\ pc = "success"
    /\ pc' = "idle"
    /\ UNCHANGED handlerVars
    /\ UNCHANGED mainVars
    /\ UNCHANGED adapterVars

\* except Exception as e: messagebox.showerror("Error", str(e)); an exception
\* the clause does not catch leaves the handler
ExceptClause ==
    /\ pc = "except"
    /\ IF IsException(exc.cls)
       THEN /\ notices' = Append(notices, ErrorNotice(exc))
            /\ events' = Append(events, "error_shown")
            /\ pc' = "error"
       ELSE /\ events' = Append(events, "propagated")
            /\ pc' = "idle"
            /\ UNCHANGED notices
    /\ UNCHANGED <<audio_path, transcript, output_path, exc, fs, fs0>>
    /\ UNCHANGED mainVars
    /\ UNCHANGED adapterVars

\* a variant that ends the process when the error box is closed
DismissError_Exits ==
    /\ pc = "error"
    /\ pc' = "exited"
    /\ UNCHANGED <<audio_path, transcript, output_path, exc, fs, fs0, notices, events>>
    /\ UNCHANGED otherVars

\* the user closes the error box; the handler returns to the event loop
DismissError ==
    /\ pc = "error"
    /\ pc' = "idle"
    /\ UNCHANGED handlerVars
    /\ UNCHANGED mainVars
    /\ UNCHANGED adapterVars

HandlerStep ==
    \/ DialogReturn
    \/ ShowWorking
    \/ DismissWorking
    \/ LoadModel
    \/ Inference
    \/ OpenOutput
    \/ WriteOutput
    \/ ShowSuccess
    \/ DismissSuccess
    \/ ExceptClause
    \/ DismissError

Next == main \/ Click \/ HandlerStep

Spec == Init /\ [][Next]_vars

\* every blocking call of the handler returns or raises, and the user closes
\* every box: the handler's next step is eventually taken
FairSpec == Spec /\ WF_vars(HandlerStep)

(***************************************************************************)
(* The output path on its own: every short path over PathChars             *)
(***************************************************************************)
PathChars == {"a", ".", "/", "t", "x"}

Paths == SeqsUpTo(PathChars, MaxPathLen) \ {<<>>}

\* the variables a specification of one function leaves alone
Rest ==
    /\ argv = <<>>
    /\ stdout = <<>>
    /\ exit_status = -1
    /\ window = FALSE
    /\ exc = NoExc
    /\ fs = [p \in FsPaths |-> Absent]
    /\ fs0 = fs
    /\ notices = <<>>
    /\ events = <<>>

PathInit ==
    /\ pc = "path_call"
    /\ audio_path \in Paths
    /\ output_path = <<>>
    /\ transcript = <<>>
    /\ result = NoResult
    /\ timestamps = ENABLE_TIMESTAMPS
    /\ Rest

\* lines 78-79 of the handler, applied to audio_path
PathDerive ==
    /\ pc = "path_call"
    /\ output_path' = OutputPath(audio_path)
    /\ pc' = "path_done"
    /\ UNCHANGED <<audio_path, transcript, exc, fs, fs0, notices, events>>
    /\ UNCHANGED mainVars
    /\ UNCHANGED adapterVars

PathNext == PathDerive

PathSpec == PathInit /\ [][PathNext]_vars

(***************************************************************************)
(* transcribe_audio on its own: every small result of the model            *)
(***************************************************************************)
\* segment texts: empty, plain, padded with blanks, with a line break inside
\* or at the ends
SegTexts ==
    { <<>>,
      <<"a">>,
      <<" ", "a", " ">>,
      <<" ", "a", " ", "b">>,
      <<"a", "\n", "b">>,
      <<"\n", "a", "\n">>,
      <<" ">> }

\* <<start, end>> in eighths of a second
TimePairs == { <<0, 1>>, <<11, 100>> }

Segs == {[start |-> t[1], end |-> t[2], text |-> x] : t \in TimePairs, x \in SegTexts}

FullTexts == { <<>>, <<" ", "a", " ", "b">>, <<"a", "\n">> }

ModelResults ==
    {[text |-> x, hasSegments |-> FALSE, segments |-> <<>>] : x \in FullTexts}
    \cup {[text |-> x, hasSegments |-> TRUE, segments |-> ss] :
            x \in FullTexts, ss \in SeqsUpTo(Segs, MaxSegs)}

FmtInit ==
    /\ pc = "fmt_call"
    /\ result \in ModelResults
    /\ timestamps \in BOOLEAN
    /\ transcript = <<>>
    /\ audio_path = <<>>
    /\ output_path = <<>>
    /\ Rest

\* lines 47-59 of transcribe_audio, applied to result
FmtReturn ==
    /\ pc = "fmt_call"
    /\ transcript' = transcribe_audio(result, timestamps)
    /\ pc' = "fmt_done"
    /\ UNCHANGED <<audio_path, output_path, exc, fs, fs0, notices, events>>
    /\ UNCHANGED mainVars
    /\ UNCHANGED adapterVars

FmtNext == FmtReturn

FmtSpec == FmtInit /\ [][FmtNext]_vars

(***************************************************************************)
(* Properties                                                              *)
(***************************************************************************)
Range(f) == {f[i] : i \in DOMAIN f}

Happened(e) == e \in Range(events)

\* the first place of event e in the handler's events
Pos(e) == CHOOSE i \in DOMAIN events : events[i] = e /\ \A j \in 1..(i - 1) : events[j] # e

ErrorNotices == {i \in DOMAIN notices : notices[i].kind = "error"}

SuccessNotices == {i \in DOMAIN notices : notices[i].title = "Success"}

InHandler ==
    pc \in {"selecting", "try", "working", "load_model", "inference", "open", "write",
            "call_success", "success", "except", "error"}

\* C1: once a path has been chosen, an exception raised by a later step of the
\* handler never leaves the handler; it ends in exactly one error notice, whose
\* text is the exception's message, and no success notice is shown.
C1_ExceptionBecomesOneErrorNotice ==
    /\ ~Happened("propagated")
    /\ (ErrorNotices # {} \/ pc = "except") => Happened("raised")
    /\ Happened("raised") =>
         /\ audio_path # <<>>
         /\ SuccessNotices = {}
         /\ pc \in {"except", "error", "idle"}
         /\ pc = "except" => ErrorNotices = {}
         /\ pc \in {"error", "idle"} =>
              /\ Cardinality(ErrorNotices) = 1
              /\ notices[Len(notices)].kind = "error"
              /\ notices[Len(notices)].text = <<exc.msg>>

C1_Witness == pc = "error" /\ exc = DecodeError /\ Len(notices) = 2

\* C2: when the dialog returns nothing the handler returns at once: the adapter
\* is not called, no file is created or changed, and no notice is shown.
C2_CancelIsSilent ==
    (events # <<>> /\ audio_path = <<>>) =>
        /\ pc = "idle"
        /\ events = <<"dialog_returned">>
        /\ notices = <<>>
        /\ transcript = <<>>
        /\ output_path = <<>>
        /\ fs = fs0

C2_Witness == pc = "idle" /\ events = <<"dialog_returned">> /\ audio_path = <<>>

\* C3: every click ends with the handler back in Idle, whichever way it goes
\* (cancel, success, error), provided each call returns and each box is closed.
C3_BackToIdle == InHandler ~> (pc = "idle")

C3_Witness == pc = "idle" /\ Happened("error_shown") /\ Happened("opened")

\* the place of the last "/", the places where a final extension starts, and
\* the directory part of a path, stated without reference to splitext
LastSep(p) ==
    IF \E i \in DOMAIN p : p[i] = "/"
    THEN CHOOSE i \in DOMAIN p : p[i] = "/" /\ \A j \in DOMAIN p : j > i => p[j] # "/"
    ELSE 0

ExtStarts(p) ==
    {i \in DOMAIN p :
        /\ p[i] = "."
        /\ i > LastSep(p)
        /\ \A j \in DOMAIN p : j > i => p[j] # "."
        /\ \E j \in (LastSep(p) + 1)..(i - 1) : p[j] # "."}

Dirname(p) == SubSeq(p, 1, LastSep(p))

\* C4: the output path is the input path without its final extension, plus
\* ".txt", in the directory of the input.  The final extension starts at the
\* last dot of the file name when a character other than a dot stands before
\* it in the file name; otherwise there is none.
C4_OutputPathReplacesExtension ==
    pc = "path_done" =>
        /\ IF ExtStarts(audio_path) = {}
           THEN output_path = audio_path \o <<".", "t", "x", "t">>
           ELSE \E i \in ExtStarts(audio_path) :
                    output_path = SubSeq(audio_path, 1, i - 1) \o <<".", "t", "x", "t">>
        /\ Dirname(output_path) = Dirname(audio_path)

C4_Witness ==
    /\ pc = "path_done"
    /\ audio_path = <<".", "a", "/", ".", "t">>
    /\ output_path = <<".", "a", "/", ".", "t", ".", "t", "x", "t">>

\* the lines of a text, as str.splitlines gives them for "\n"
RECURSIVE SplitLines(_)
SplitLines(s) ==
    IF s = <<>> THEN <<>>
    ELSE LET breaks == {i \in DOMAIN s : s[i] = "\n"}
         IN  IF breaks = {} THEN <<s>>
             ELSE LET b == CHOOSE i \in breaks : \A j \in breaks : i <= j
                  IN  <<SubSeq(s, 1, b - 1)>> \o SplitLines(SubSeq(s, b + 1, Len(s)))

\* C5: with timestamps on, a result of N segments gives exactly N lines, line i
\* being "[start - end] " and the trimmed text of segment i.
C5_OneLinePerSegment ==
    (pc = "fmt_done" /\ timestamps /\ result.hasSegments) =>
        LET lines == SplitLines(transcript)
        IN  /\ Len(lines) = Len(result.segments)
            /\ \A i \in DOMAIN lines : lines[i] = SegmentStr(result.segments[i])

\* t is the strings of the segments, in order, one "\n" between neighbours
SegmentLayout(t, segs) ==
    LET strs == [i \in DOMAIN segs |-> SegmentStr(segs[i])]
        Offset[i \in DOMAIN segs] == IF i = 1 THEN 0 ELSE Offset[i - 1] + Len(strs[i - 1]) + 1
        n == Len(segs)
    IN  /\ Len(t) = IF n = 0 THEN 0 ELSE Offset[n] + Len(strs[n])
        /\ \A i \in DOMAIN segs :
             /\ SubSeq(t, Offset[i] + 1, Offset[i] + Len(strs[i])) = strs[i]
             /\ i < n => t[Offset[i] + Len(strs[i]) + 1] = "\n"

\* C6: the full text is returned as it is when timestamps are off or the
\* result has no segments; the segment layout is returned only when timestamps
\* are on and segments are present; a result without segments is no error.
C6_FlatTextUnlessSegments ==
    /\ pc = "fmt_call" => ENABLED FmtReturn
    /\ pc = "fmt_done" =>
         IF timestamps /\ result.hasSegments
         THEN SegmentLayout(transcript, result.segments)
         ELSE transcript = result.text

C6_Witness ==
    /\ pc = "fmt_done"
    /\ timestamps
    /\ ~result.hasSegments
    /\ transcript = <<" ", "a", " ", "b">>

\* the events of a successful run, in the order of lines 65-84
Chain ==
    <<"dialog_returned", "working_shown", "working_dismissed", "adapter_called",
      "adapter_returned", "opened", "written", "success_shown">>

\* C7: the steps of a run with a chosen path come in the order working notice,
\* adapter call, write, success notice; the success notice is up only when the
\* file at the derived output path holds exactly the adapter's text, and it
\* names that path.
C7_StepsInOrder ==
    /\ \A k \in 2..Len(Chain) :
         Happened(Chain[k]) =>
            /\ Happened(Chain[k - 1])
            /\ Pos(Chain[k - 1]) < Pos(Chain[k])
    /\ SuccessNotices # {} =>
         LET named == SubSeq(notices[Len(notices)].text, 3, Len(notices[Len(notices)].text))
         IN  /\ Happened("success_shown")
             /\ Cardinality(SuccessNotices) = 1
             /\ notices[1] = WorkingNotice
             /\ named = splitext(audio_path)[1] \o TxtExt
             /\ named = output_path
             /\ fs[named] = File(transcript)
             /\ transcript \in {transcribe_audio(r, ENABLE_TIMESTAMPS) : r \in SampleResults}
             /\ \A q \in DOMAIN fs : q # named => fs[q] = fs0[q]

C7_Witness ==
    /\ pc = "success"
    /\ audio_path = <<"a", ".", "m", "p", "3">>
    /\ fs[<<"a", ".", "t", "x", "t">>].data = transcript
    /\ Len(transcript) > 3

\* the exact token is one of the arguments
HasHelpToken == "--help" \in Range(argv)

\* C8: with the token "--help" among the arguments main prints the usage and
\* exits with status 0, no window made, no event loop; without it the window
\* is made and the event loop runs.
C8_HelpExitsBeforeWindow ==
    /\ pc = "start" => ~window /\ stdout = <<>> /\ exit_status = -1
    /\ (pc # "start" /\ HasHelpToken) =>
         /\ pc = "exited"
         /\ stdout = <<HelpText>>
         /\ exit_status = 0
         /\ ~window
         /\ events = <<>>
    /\ (pc # "start" /\ ~HasHelpToken) =>
         /\ window
         /\ pc # "exited"
         /\ stdout = <<>>
         /\ exit_status = -1

C8_Witness == pc = "exited" /\ Len(argv) = 2 /\ argv[1] = "-h"

\* C9: the handler never overwrites the file the user selected: the file at
\* the input path stays as it was when the button was clicked.
C9_InputNeverOverwritten ==
    audio_path # <<>> => fs[audio_path] = fs0[audio_path]

\* C10: when a run of the handler ends with an error notice, the file system
\* is as it was before the click.
C10_ErrorLeavesFilesAlone ==
    pc = "error" => fs = fs0

====
